---- MODULE Spec2Model ----
(***************************************************************************)
(* LocalBlob (src/beaker/lib/storage/local_blob.py): a byte buffer paged   *)
(* over the local-state slots of an account.  Every method builds a TEAL   *)
(* subroutine; the model evaluates that subroutine on the slot contents,   *)
(* with the failure conditions of the opcodes it uses (substring3,         *)
(* extract3, getbyte, setbyte, uint64 subtraction) and with the sequence   *)
(* of app_local_get / app_local_put calls it issues.                       *)
(***************************************************************************)
EXTENDS Integers, Sequences, FiniteSets, TLC

(* Page size of one slot.  The repository uses 127; the model scales it.   *)
BLOB_PAGE_SIZE == 3

(* Number of slots handed to LocalBlob(max_keys=...).                      *)
max_keys == 2

(* Byte values the callers pass.  256 is not a byte: setbyte rejects it.   *)
ByteInputs == {0, 1, 256}

(* Data patterns the callers write (see DataOf).                           *)
Seeds == {0, 1}

(* The accounts opted in to the application: the sender of the call, whom  *)
(* every method takes by default (acct = Txn.sender()), and another one.   *)
Accounts == {"sender", "other"}

(* Number of attributes of the class an Application is constructed from.   *)
MaxAttrs == 3

(* Supply of a royalty asset, and so the largest amount offered or moved.  *)
MaxAmount == 2

VARIABLES slots, call, app, arc

vars == <<slots, call, app, arc>>

capacity_bytes == BLOB_PAGE_SIZE * max_keys

(* Offsets the callers pass: everything in range and the capacity itself;  *)
(* range ends also reach one past the capacity.                            *)
Offsets == 0..capacity_bytes

Ends == 0..(capacity_bytes + 1)

(***************************************************************************)
(* TEAL values and opcodes                                                 *)
(***************************************************************************)

(* A stack value: a byte string, or a uint64 (b is then unused).           *)
BytesValue(s) == [tt |-> "bytes", b |-> s]

(* app_local_get of a key that was never put yields uint64 0.              *)
UintZero == [tt |-> "uint", b |-> << >>]

IsBytes(v) == v.tt = "bytes"

(* substring3 fails on a non-bytes argument, on start > end, on            *)
(* end > length.                                                           *)
SubstringOk(v, s, e) == IsBytes(v) /\ s <= e /\ e <= Len(v.b)

Substring(v, s, e) == SubSeq(v.b, s + 1, e)

(* extract3 fails when start + length reaches past the end.                *)
ExtractOk(s, start, length) == start + length <= Len(s)

Extract(s, start, length) == SubSeq(s, start + 1, start + length)

(* getbyte fails on a non-bytes argument or an index past the end.         *)
GetByteOk(v, i) == IsBytes(v) /\ i < Len(v.b)

GetByte(v, i) == v.b[i + 1]

(* setbyte additionally fails on a value above 255.                        *)
SetByteOk(v, i, byte) == IsBytes(v) /\ i < Len(v.b) /\ byte <= 255

SetByte(v, i, byte) == [v.b EXCEPT ![i + 1] = byte]

(***************************************************************************)
(* Blob base class: addressing                                             *)
(***************************************************************************)

(* The page keys, in page order: keys 0 .. max_keys-1 by default.          *)
byte_keys == [i \in 0..(max_keys - 1) |-> i]

EMPTY_PAGE == [i \in 1..BLOB_PAGE_SIZE |-> 0]

_key_idx(idx) == idx \div BLOB_PAGE_SIZE

_offset_for_idx(idx) == idx % BLOB_PAGE_SIZE

(* A page index has a key only inside the key space.                       *)
_key_ok(i) == i \in DOMAIN byte_keys

_key(i) == byte_keys[i]

(***************************************************************************)
(* Slot store                                                              *)
(***************************************************************************)

(* sl[acct][key]: the local state of every account.                        *)
localGet(sl, acct, key) == sl[acct][key]

localPut(sl, acct, key, value) ==
  [sl EXCEPT ![acct] = [@ EXCEPT ![key] = BytesValue(value)]]

GetCall(acct, key) ==
  [c |-> "get", acct |-> acct, key |-> key, value |-> << >>]

PutCall(acct, key, value) ==
  [c |-> "put", acct |-> acct, key |-> key, value |-> value]

(* A subroutine's outcome: did it run to its end, what it returned, the    *)
(* slots as its puts left them, the slot-store calls it issued.            *)
Outcome(ok, out, sl, log) == [ok |-> ok, out |-> out, sl |-> sl, log |-> log]

(***************************************************************************)
(* LocalBlob.zero                                                          *)
(***************************************************************************)

(* zero with Txn.sender() in place of the account passed.                  *)
zero_of_sender(sl, acct) ==
  Outcome(TRUE, << >>,
          [sl EXCEPT !["sender"] =
             [k \in DOMAIN @ |->
                IF \E i \in DOMAIN byte_keys : byte_keys[i] = k
                THEN BytesValue(EMPTY_PAGE) ELSE @[k]]],
          [n \in 1..max_keys |->
             PutCall("sender", byte_keys[n - 1], EMPTY_PAGE)])

(* One put of EMPTY_PAGE per key of byte_keys, in order.                   *)
zero(sl, acct) ==
  Outcome(TRUE, << >>,
          [sl EXCEPT ![acct] =
             [k \in DOMAIN @ |->
                IF \E i \in DOMAIN byte_keys : byte_keys[i] = k
                THEN BytesValue(EMPTY_PAGE) ELSE @[k]]],
          [n \in 1..max_keys |-> PutCall(acct, byte_keys[n - 1], EMPTY_PAGE)])

(***************************************************************************)
(* LocalBlob.get_byte                                                      *)
(***************************************************************************)

(* get_byte that puts the fetched page back.                               *)
get_byte_put_back(sl, acct, idx) ==
  IF ~_key_ok(_key_idx(idx))
  THEN Outcome(FALSE, << >>, sl, << >>)
  ELSE LET key == _key(_key_idx(idx))
           page == localGet(sl, acct, key)
       IN IF ~GetByteOk(page, _offset_for_idx(idx))
          THEN Outcome(FALSE, << >>, sl, <<GetCall(acct, key)>>)
          ELSE Outcome(TRUE, <<GetByte(page, _offset_for_idx(idx))>>, sl,
                       <<GetCall(acct, key), PutCall(acct, key, page.b)>>)

get_byte(sl, acct, idx) ==
  IF ~_key_ok(_key_idx(idx))
  THEN Outcome(FALSE, << >>, sl, << >>)
  ELSE LET key == _key(_key_idx(idx))
           page == localGet(sl, acct, key)
           log == <<GetCall(acct, key)>>
       IN IF ~GetByteOk(page, _offset_for_idx(idx))
          THEN Outcome(FALSE, << >>, sl, log)
          ELSE Outcome(TRUE, <<GetByte(page, _offset_for_idx(idx))>>, sl, log)

(***************************************************************************)
(* LocalBlob.set_byte                                                      *)
(***************************************************************************)

(* set_byte_page with the page index taken for the position in the page.   *)
set_byte_page_by_key_idx(page, idx, byte) == SetByte(page, _key_idx(idx), byte)

(* The page written back: the fetched page with one byte replaced.         *)
set_byte_page(page, idx, byte) == SetByte(page, _offset_for_idx(idx), byte)

set_byte(sl, acct, idx, byte) ==
  IF ~_key_ok(_key_idx(idx))
  THEN Outcome(FALSE, << >>, sl, << >>)
  ELSE LET key == _key(_key_idx(idx))
           page == localGet(sl, acct, key)
       IN IF ~SetByteOk(page, _offset_for_idx(idx), byte)
          THEN Outcome(FALSE, << >>, sl, <<GetCall(acct, key)>>)
          ELSE LET value == set_byte_page(page, idx, byte)
               IN Outcome(TRUE, << >>, localPut(sl, acct, key, value),
                          <<GetCall(acct, key), PutCall(acct, key, value)>>)

(***************************************************************************)
(* LocalBlob.read                                                          *)
(***************************************************************************)

(* start.store(...) and stop.store(...) of one loop iteration.             *)
read_start(key_idx, bstart) ==
  IF key_idx = _key_idx(bstart) THEN _offset_for_idx(bstart) ELSE 0

read_stop(key_idx, bend) ==
  IF key_idx = _key_idx(bend) THEN _offset_for_idx(bend) ELSE BLOB_PAGE_SIZE

(* The For loop from key_idx on, with buff and the calls issued so far.    *)
RECURSIVE read_loop(_, _, _, _, _, _, _)
read_loop(sl, acct, bstart, bend, key_idx, buff, log) ==
  IF ~(key_idx <= _key_idx(bend))
  THEN Outcome(TRUE, buff, sl, log)
  ELSE IF ~_key_ok(key_idx)
  THEN Outcome(FALSE, << >>, sl, log)
  ELSE LET key == _key(key_idx)
           page == localGet(sl, acct, key)
           log1 == Append(log, GetCall(acct, key))
           start == read_start(key_idx, bstart)
           stop == read_stop(key_idx, bend)
       IN IF ~SubstringOk(page, start, stop)
          THEN Outcome(FALSE, << >>, sl, log1)
          ELSE read_loop(sl, acct, bstart, bend, key_idx + 1,
                         buff \o Substring(page, start, stop), log1)

read(sl, acct, bstart, bend) ==
  read_loop(sl, acct, bstart, bend, _key_idx(bstart), << >>, << >>)

(***************************************************************************)
(* LocalBlob.write                                                         *)
(***************************************************************************)

write_start(key_idx, bstart) ==
  IF key_idx = _key_idx(bstart) THEN _offset_for_idx(bstart) ELSE 0

write_stop(key_idx, bend) ==
  IF key_idx = _key_idx(bend) THEN _offset_for_idx(bend) ELSE BLOB_PAGE_SIZE

(* is_partial that takes every page for a partial one.                     *)
is_partial_always(start, stop) == TRUE

(* "Its a partial write": the page is not covered from 0 to the page size. *)
is_partial(start, stop) == stop # BLOB_PAGE_SIZE \/ start # 0

(* merge_page with the empty page in place of the old page.                *)
merge_page_onto_empty(page1, page2, buff, written, start, stop) ==
  Substring(BytesValue(EMPTY_PAGE), 0, start)
    \o Extract(buff, written, stop - start)
    \o Substring(BytesValue(EMPTY_PAGE), stop, BLOB_PAGE_SIZE)

(* merge_page without the third part.                                      *)
merge_page_no_tail(page1, page2, buff, written, start, stop) ==
  Substring(page1, 0, start) \o Extract(buff, written, stop - start)

(* The three parts of a partial write: the old page up to start, the       *)
(* slice of buff, the old page from stop on.  page1 and page2 are the two  *)
(* fetches of the old page.                                                *)
merge_page(page1, page2, buff, written, start, stop) ==
  Substring(page1, 0, start)
    \o Extract(buff, written, stop - start)
    \o Substring(page2, stop, BLOB_PAGE_SIZE)

(* full_page that takes the first bytes of buff, whatever was written.     *)
full_page_from_start(buff, written) == Extract(buff, 0, BLOB_PAGE_SIZE)

(* The page of a full write: the next BLOB_PAGE_SIZE bytes of buff.        *)
full_page(buff, written) == Extract(buff, written, BLOB_PAGE_SIZE)

(* The value handed to App.localPut for page key_idx, with delta, or the   *)
(* failure of one of its opcodes; gets are the fetches made on the way.    *)
write_value(sl, acct, key, buff, written, start, stop) ==
  IF is_partial(start, stop)
  THEN IF stop < start
       THEN [ok |-> FALSE, value |-> << >>, delta |-> 0, gets |-> << >>]
       ELSE IF ~SubstringOk(localGet(sl, acct, key), 0, start)
       THEN [ok |-> FALSE, value |-> << >>, delta |-> 0,
             gets |-> <<GetCall(acct, key)>>]
       ELSE IF ~ExtractOk(buff, written, stop - start)
       THEN [ok |-> FALSE, value |-> << >>, delta |-> 0,
             gets |-> <<GetCall(acct, key)>>]
       ELSE IF ~SubstringOk(localGet(sl, acct, key), stop, BLOB_PAGE_SIZE)
       THEN [ok |-> FALSE, value |-> << >>, delta |-> 0,
             gets |-> <<GetCall(acct, key), GetCall(acct, key)>>]
       ELSE [ok |-> TRUE,
             value |-> merge_page(localGet(sl, acct, key),
                                  localGet(sl, acct, key),
                                  buff, written, start, stop),
             delta |-> stop - start,
             gets |-> <<GetCall(acct, key), GetCall(acct, key)>>]
  ELSE IF ~ExtractOk(buff, written, BLOB_PAGE_SIZE)
       THEN [ok |-> FALSE, value |-> << >>, delta |-> 0, gets |-> << >>]
       ELSE [ok |-> TRUE, value |-> full_page(buff, written),
             delta |-> BLOB_PAGE_SIZE, gets |-> << >>]

(* The For loop from key_idx on; steps records, per iteration, the         *)
(* counter written at its start, the bounds start and stop, and delta.     *)
RECURSIVE write_loop(_, _, _, _, _, _, _, _)
write_loop(sl, acct, bstart, buff, key_idx, written, log, steps) ==
  IF ~(key_idx <= _key_idx(bstart + Len(buff)))
  THEN [ok |-> TRUE, out |-> << >>, sl |-> sl, log |-> log,
        written |-> written, steps |-> steps]
  ELSE IF ~_key_ok(key_idx)
  THEN [ok |-> FALSE, out |-> << >>, sl |-> sl, log |-> log,
        written |-> written, steps |-> steps]
  ELSE LET key == _key(key_idx)
           start == write_start(key_idx, bstart)
           stop == write_stop(key_idx, bstart + Len(buff))
           v == write_value(sl, acct, key, buff, written, start, stop)
           step == [key_idx |-> key_idx, written |-> written,
                    start |-> start, stop |-> stop, delta |-> v.delta]
       IN IF ~v.ok
          THEN [ok |-> FALSE, out |-> << >>, sl |-> sl,
                log |-> log \o v.gets,
                written |-> written, steps |-> Append(steps, step)]
          ELSE write_loop(localPut(sl, acct, key, v.value), acct, bstart,
                          buff, key_idx + 1, written + v.delta,
                          (log \o v.gets) \o <<PutCall(acct, key, v.value)>>,
                          Append(steps, step))

write(sl, acct, bstart, buff) ==
  write_loop(sl, acct, bstart, buff, _key_idx(bstart), 0, << >>, << >>)

(***************************************************************************)
(* The contract calling the blob, one method per application call, with    *)
(* the default acct = Txn.sender()                                         *)
(***************************************************************************)

(* The bytes a caller writes: length n, one of two patterns                *)
(* (0101.., 110110..).                                                     *)
DataOf(n, seed) ==
  [i \in 1..n |->
     IF seed = 0 THEN (i - 1) % 2
     ELSE IF (i - 1) % 3 = 2 THEN 0 ELSE 1]

(* No call is running.                                                     *)
Idle ==
  [op |-> "idle", acct |-> "sender", a |-> 0, b |-> 0, data |-> << >>,
   pre |-> << >>, ok |-> TRUE, out |-> << >>, log |-> << >>,
   steps |-> << >>]

(* The record of a call: its arguments, the slots before it, its outcome.  *)
Called(op, acct, a, b, data, r, steps) ==
  [op |-> op, acct |-> acct, a |-> a, b |-> b, data |-> data,
   pre |-> slots, ok |-> r.ok, out |-> r.out, log |-> r.log,
   steps |-> steps]

(* No Application is being constructed.                                    *)
NoApplication ==
  [attrs |-> << >>, todo |-> {}, handler_config |-> << >>,
   bare_handlers |-> << >>, methods |-> << >>, router |-> << >>,
   status |-> "none", error |-> "none"]

(* The ARC18 application has not been created.                             *)
NoARC18 == [exists |-> FALSE]

(* After opt-in and before zero: no key of any account has been put.       *)
Init ==
  /\ slots = [acct \in Accounts |->
               [k \in {byte_keys[i] : i \in DOMAIN byte_keys} |-> UintZero]]
  /\ call = Idle
  /\ app = NoApplication
  /\ arc = NoARC18

CallZero ==
  /\ call.op = "idle"
  /\ \E r \in {zero(slots, "sender")} :
       /\ slots' = r.sl
       /\ call' = Called("zero", "sender", 0, 0, << >>, r, << >>)
       /\ UNCHANGED <<app, arc>>

CallGetByte ==
  /\ call.op = "idle"
  /\ \E idx \in Offsets :
     \E r \in {get_byte(slots, "sender", idx)} :
       /\ slots' = r.sl
       /\ call' = Called("get_byte", "sender", idx, 0, << >>, r, << >>)
       /\ UNCHANGED <<app, arc>>

CallSetByte ==
  /\ call.op = "idle"
  /\ \E idx \in Offsets, byte \in ByteInputs :
     \E r \in {set_byte(slots, "sender", idx, byte)} :
       /\ slots' = r.sl
       /\ call' = Called("set_byte", "sender", idx, byte, << >>, r, << >>)
       /\ UNCHANGED <<app, arc>>

CallRead ==
  /\ call.op = "idle"
  /\ \E bstart \in Offsets, bend \in Ends :
     \E r \in {read(slots, "sender", bstart, bend)} :
       /\ slots' = r.sl
       /\ call' = Called("read", "sender", bstart, bend, << >>, r, << >>)
       /\ UNCHANGED <<app, arc>>

CallWrite ==
  /\ call.op = "idle"
  /\ \E bstart \in Offsets, bend \in Ends, seed \in Seeds :
       /\ bstart <= bend
       /\ \E r \in {write(slots, "sender", bstart,
                          DataOf(bend - bstart, seed))} :
            /\ slots' = r.sl
            /\ call' = Called("write", "sender", bstart, bend,
                              DataOf(bend - bstart, seed), r, r.steps)
            /\ UNCHANGED <<app, arc>>

(* The application call ends; its scratch space is gone.                   *)
Return ==
  /\ call.op # "idle"
  /\ call' = Idle
  /\ UNCHANGED <<slots, app, arc>>

Next ==
  \/ CallZero
  \/ CallGetByte
  \/ CallSetByte
  \/ CallRead
  \/ CallWrite
  \/ Return

Spec == Init /\ [][Next]_vars

(***************************************************************************)
(* A contract that zeroes the blob of any opted-in account                 *)
(***************************************************************************)

CallZeroFor ==
  /\ call.op = "idle"
  /\ \E acct \in Accounts :
     \E r \in {zero(slots, acct)} :
       /\ slots' = r.sl
       /\ call' = Called("zero", acct, 0, 0, << >>, r, << >>)
       /\ UNCHANGED <<app, arc>>

NextAccounts ==
  \/ CallZeroFor
  \/ CallGetByte
  \/ CallSetByte
  \/ Return

SpecAccounts == Init /\ [][NextAccounts]_vars

(***************************************************************************)
(* Application.__init__ (src/beaker/application.py): the constructor scans *)
(* the attributes of the class, registers bare handlers, ABI methods and   *)
(* subroutines, and then builds the router.                                *)
(***************************************************************************)

(* The fields of BareCallActions an attribute can set, in the order of     *)
(* bare_method.__dict__ (the order the constructor walks them in).         *)
OnCompletes == <<"no_op", "opt_in">>

(* The method_config values an ABI method can be declared with.            *)
MethodConfigs == {"call_no_op", "call_opt_in"}

(* What get_handler_config finds on an attribute: the case of the match    *)
(* statement it falls in, the on-completion actions of its bare_method,    *)
(* and its method_config (None unless it is an ABI method).                *)
HandlerConfig(kind, ocs, method_config) ==
  [kind |-> kind, ocs |-> ocs, method_config |-> method_config]

(* The attributes a class can have: state values, bare handlers, ABI       *)
(* methods, internal subroutines, and attributes that are none of these.   *)
Attributes ==
  {HandlerConfig("state", {}, "None"),
   HandlerConfig("subroutine", {}, "None"),
   HandlerConfig("plain", {}, "None")}
  \cup {HandlerConfig("bare", ocs, "None") :
          ocs \in (SUBSET {OnCompletes[i] : i \in DOMAIN OnCompletes}) \ {{}}}
  \cup {HandlerConfig("method", {}, mc) : mc \in MethodConfigs}

(* The attribute names of the class (self.attrs keys).                     *)
Names == 1..MaxAttrs

get_handler_config(attrs, name) == attrs[name]

(* The state at the entry of the loop over self.attrs.items(): nothing     *)
(* visited, both handler dicts empty, handler_config not yet bound.        *)
Constructing(attrs) ==
  [attrs |-> attrs, todo |-> DOMAIN attrs,
   handler_config |-> HandlerConfig("unbound", {}, "unbound"),
   bare_handlers |-> << >>, methods |-> << >>, router |-> << >>,
   status |-> "scan", error |-> "none"]

(* The on-completion actions of one attribute that are already taken, as   *)
(* positions in the walking order.                                         *)
Taken(bare_handlers, ocs) ==
  {i \in DOMAIN OnCompletes :
     OnCompletes[i] \in ocs /\ OnCompletes[i] \in DOMAIN bare_handlers}

FirstOf(S) == CHOOSE i \in S : \A j \in S : i <= j

(* The inner loop without the overwrite check: the later handler wins.     *)
register_bare_overwrite(a, name, ocs) ==
  [a EXCEPT !.bare_handlers =
       [oc \in (DOMAIN a.bare_handlers) \cup ocs |->
          IF oc \in ocs THEN name ELSE a.bare_handlers[oc]]]

(* for oc, action in actions.items(): raise BareOverwriteError(oc) on the  *)
(* first action that already has a handler, after registering the ones     *)
(* walked before it; otherwise register them all.  A registered action is  *)
(* identified by the name of the attribute it came from.                   *)
register_bare(a, name, ocs) ==
  LET taken == Taken(a.bare_handlers, ocs)
      upto  == IF taken = {} THEN Len(OnCompletes) + 1 ELSE FirstOf(taken)
      added == {OnCompletes[i] : i \in {j \in DOMAIN OnCompletes : j < upto}}
                 \cap ocs
      bh    == [oc \in (DOMAIN a.bare_handlers) \cup added |->
                  IF oc \in added THEN name ELSE a.bare_handlers[oc]]
  IN  IF taken = {}
      THEN [a EXCEPT !.bare_handlers = bh]
      ELSE [a EXCEPT !.bare_handlers = bh, !.status = "raised",
                     !.error = OnCompletes[upto]]

(* router.add_method_handler for every entry of self.methods, in insertion *)
(* order, with the method_config of the handler_config the loop left.      *)
add_method_handlers(methods, handler_config) ==
  [n \in DOMAIN methods |->
     [method_call |-> methods[n],
      method_config |-> handler_config.method_config]]

(* A state value is recorded and the loop continues before                 *)
(* get_handler_config is called.                                           *)
VisitStateValue ==
  /\ app.status = "scan"
  /\ \E name \in app.todo :
       /\ app.attrs[name].kind = "state"
       /\ app' = [app EXCEPT !.todo = @ \ {name}]
  /\ UNCHANGED <<slots, call, arc>>

VisitBareHandler ==
  /\ app.status = "scan"
  /\ \E name \in app.todo :
       LET hc == get_handler_config(app.attrs, name)
       IN  /\ hc.kind = "bare"
           /\ app' = register_bare(
                       [app EXCEPT !.todo = @ \ {name}, !.handler_config = hc],
                       name, hc.ocs)
  /\ UNCHANGED <<slots, call, arc>>

VisitMethod ==
  /\ app.status = "scan"
  /\ \E name \in app.todo :
       LET hc == get_handler_config(app.attrs, name)
       IN  /\ hc.kind = "method"
           /\ app' = [app EXCEPT !.todo = @ \ {name}, !.handler_config = hc,
                                 !.methods = Append(@, name)]
  /\ UNCHANGED <<slots, call, arc>>

VisitSubroutine ==
  /\ app.status = "scan"
  /\ \E name \in app.todo :
       LET hc == get_handler_config(app.attrs, name)
       IN  /\ hc.kind = "subroutine"
           /\ app' = [app EXCEPT !.todo = @ \ {name}, !.handler_config = hc]
  /\ UNCHANGED <<slots, call, arc>>

(* An attribute that matches no case still rebinds handler_config.         *)
VisitOther ==
  /\ app.status = "scan"
  /\ \E name \in app.todo :
       LET hc == get_handler_config(app.attrs, name)
       IN  /\ hc.kind = "plain"
           /\ app' = [app EXCEPT !.todo = @ \ {name}, !.handler_config = hc]
  /\ UNCHANGED <<slots, call, arc>>

(* After the loop: the Router, with the bare_handlers as its bare_calls,   *)
(* and the method handlers.                                                *)
BuildRouter ==
  /\ app.status = "scan"
  /\ app.todo = {}
  /\ app' = [app EXCEPT
               !.router = [bare_calls |-> app.bare_handlers,
                           method_handlers |->
                             add_method_handlers(app.methods,
                                                 app.handler_config)],
               !.status = "built"]
  /\ UNCHANGED <<slots, call, arc>>

(* __init__ is entered with any class of up to MaxAttrs attributes.        *)
InitApp ==
  /\ slots = [acct \in Accounts |->
               [k \in {byte_keys[i] : i \in DOMAIN byte_keys} |-> UintZero]]
  /\ call = Idle
  /\ app \in {Constructing(attrs) : attrs \in [Names -> Attributes]}
  /\ arc = NoARC18

NextApp ==
  \/ VisitStateValue
  \/ VisitBareHandler
  \/ VisitMethod
  \/ VisitSubroutine
  \/ VisitOther
  \/ BuildRouter

SpecApp == InitApp /\ [][NextApp]_vars

(***************************************************************************)
(* ARC18 (src/beaker/arcs/arc18.py): a royalty enforcer.  Its global state *)
(* holds the administrator and the royalty policy, the local state of an   *)
(* owner holds one offer per asset, and the handlers move assets and pay   *)
(* royalties with inner transactions.  A call that fails is rejected by    *)
(* the AVM as a whole, so a handler changes the ledger only when every     *)
(* Assert and every opcode of it succeeds.                                 *)
(***************************************************************************)

(* Extract(offer, Int(0), Int(32)): the length of an address.              *)
AddressLength == 32

(* Bytes of a uint64 as Itob writes it.  The AVM has 8; the model has 2,   *)
(* so that the product inside WideRatio stays an integer TLC can hold.     *)
Uint64Length == 2

MaxUint64 == 256 ^ Uint64Length - 1

basis_point_multiplier == 100 * 100

Address(n) == [k \in 1..AddressLength |-> n]

zero_address == Address(0)

creator_address == Address(1)

alice == Address(2)

bob == Address(3)

carol == Address(4)

current_application_address == Address(9)

(* The accounts opted in to the application, which hold the royalty asset. *)
Owners == {alice, bob}

(* The royalty assets.                                                     *)
Assets == {1}

(* A value that may be absent: MaybeValue of app_local_get_ex, or a global *)
(* state key that was never put.                                           *)
Absent(v) == [has |-> FALSE, v |-> v]

Present(v) == [has |-> TRUE, v |-> v]

Itob(n) ==
  [k \in 1..Uint64Length |-> (n \div (256 ^ (Uint64Length - k))) % 256]

RECURSIVE BigEndian(_)
BigEndian(b) ==
  IF b = << >> THEN 0
  ELSE BigEndian(SubSeq(b, 1, Len(b) - 1)) * 256 + b[Len(b)]

ExtractUint64Ok(s, start) == start + Uint64Length <= Len(s)

ExtractUint64(s, start) == BigEndian(SubSeq(s, start + 1, start + Uint64Length))

(* offered_amount and offered_auth fail on an offer that is too short.     *)
offered_amount_ok(offer) == ExtractUint64Ok(offer, AddressLength)

offered_amount(offer) == ExtractUint64(offer, AddressLength)

offered_auth_ok(offer) == ExtractOk(offer, 0, AddressLength)

offered_auth(offer) == Extract(offer, 0, AddressLength)

(* WideRatio([payment_amt, royalty_basis], [basis_point_multiplier]): the  *)
(* product is exact, the quotient must fit a uint64.                       *)
compute_royalty_amount_ok(payment_amt, royalty_basis) ==
  (payment_amt * royalty_basis) \div basis_point_multiplier <= MaxUint64

compute_royalty_amount(payment_amt, royalty_basis) ==
  (payment_amt * royalty_basis) \div basis_point_multiplier

(* One inner transaction of a submitted group.                             *)
InnerTxn(type_enum, asset, amount, sender, receiver) ==
  [type_enum |-> type_enum, asset |-> asset, amount |-> amount,
   sender |-> sender, receiver |-> receiver]

(* The owner is paid the whole purchase amount on top of the royalty.      *)
owner_share_whole(purchase_amt, royalty_amt) == purchase_amt

owner_share(purchase_amt, royalty_amt) == purchase_amt - royalty_amt

(* The two payments of do_pay_assets and do_pay_algos: the owner's, and    *)
(* after InnerTxnBuilder.Next() the royalty receiver's if there is a       *)
(* royalty.  The uint64 subtraction fails below zero; a receiver that was  *)
(* never stored is not an address.                                         *)
pay(type_enum, asset, purchase_amt, owner, royalty_receiver, royalty_basis) ==
  LET ratio_ok    == compute_royalty_amount_ok(purchase_amt, royalty_basis)
      royalty_amt == compute_royalty_amount(purchase_amt, royalty_basis)
      to_owner    == InnerTxn(type_enum, asset,
                              owner_share(purchase_amt, royalty_amt),
                              current_application_address, owner)
      to_receiver == InnerTxn(type_enum, asset, royalty_amt,
                              current_application_address, royalty_receiver.v)
  IN  IF ~ratio_ok \/ royalty_amt > purchase_amt
      THEN [ok |-> FALSE, inner |-> << >>]
      ELSE IF royalty_amt > 0
      THEN [ok |-> royalty_receiver.has, inner |-> <<to_owner, to_receiver>>]
      ELSE [ok |-> TRUE, inner |-> <<to_owner>>]

(* do_pay_assets reads both the basis and the receiver from global state;  *)
(* a basis that was never stored reads as 0.                               *)
do_pay_assets(g, purchase_asset_id, purchase_amt, owner) ==
  pay("axfer", purchase_asset_id, purchase_amt, owner, g.royalty_receiver,
      g.royalty_basis.v)

(* do_pay_algos is passed the receiver and the basis.                      *)
do_pay_algos(purchase_amt, owner, royalty_receiver, royalty_basis) ==
  pay("pay", 0, purchase_amt, owner, Present(royalty_receiver), royalty_basis)

(* The clawback of do_move_asset: it fails when from_addr holds less than  *)
(* asset_amt.                                                              *)
do_move_asset(holdings, asset_id, from_addr, to_addr, asset_amt) ==
  IF holdings[asset_id][from_addr] < asset_amt
  THEN [ok |-> FALSE, holdings |-> holdings]
  ELSE [ok |-> TRUE,
        holdings |->
          [holdings EXCEPT ![asset_id] =
             [h \in DOMAIN @ |->
                @[h] - (IF h = from_addr THEN asset_amt ELSE 0)
                     + (IF h = to_addr THEN asset_amt ELSE 0)]]]

(* The compare of do_update_offered.                                       *)
previous_matches(previous, prev_auth, prev_amt) ==
  IF previous.has
  THEN /\ offered_amount_ok(previous.v)
       /\ offered_amount(previous.v) = prev_amt
       /\ offered_auth_ok(previous.v)
       /\ offered_auth(previous.v) = prev_auth
  ELSE prev_amt = 0 /\ prev_auth = zero_address

(* The swap of do_update_offered: set when amt > 0, delete otherwise.      *)
new_offer(auth, amt) ==
  IF amt > 0 THEN Present(auth \o Itob(amt)) ELSE Absent(<< >>)

(* The swap done without the compare.                                      *)
do_update_offered_unchecked(offers, acct, asset, auth, amt, prev_auth, prev_amt) ==
  [ok |-> TRUE,
   offers |-> [offers EXCEPT ![acct][asset] = new_offer(auth, amt)]]

do_update_offered(offers, acct, asset, auth, amt, prev_auth, prev_amt) ==
  IF previous_matches(offers[acct][asset], prev_auth, prev_amt)
  THEN [ok |-> TRUE,
        offers |-> [offers EXCEPT ![acct][asset] = new_offer(auth, amt)]]
  ELSE [ok |-> FALSE, offers |-> offers]

(***************************************************************************)
(* ARC18: the state and the handlers.                                      *)
(*   arc.g         global state: administrator, royalty_basis and          *)
(*                 royalty_receiver                                        *)
(*   arc.offers    local state: offers[owner][asset]                       *)
(*   arc.holdings  the ledger's balances of the royalty assets             *)
(*   arc.offered, arc.moved                                                *)
(*                 history: the amount of the last offer call of an owner  *)
(*                 and the amount moved out of the owner's holding since   *)
(*   arc.last      the last call: handler, arguments, state before it and  *)
(*                 outcome.  A call that fails before do_update_offered    *)
(*                 keeps only the name of its handler.                     *)
(***************************************************************************)

(* Global.creator_address() is the default of the administrator; the two   *)
(* static values are not stored by create.                                 *)
initialize_app_state ==
  [administrator |-> Present(creator_address),
   royalty_basis |-> Absent(0),
   royalty_receiver |-> Absent(<< >>)]

NoCall == [op |-> "none", ok |-> TRUE, stage |-> "none"]

Rejected(op) == [op |-> op, ok |-> FALSE, stage |-> "assert"]

Created(g, static_once) ==
  [exists |-> TRUE, updated |-> FALSE, static_once |-> static_once,
   payment_asset_opted_in |-> FALSE,
   g |-> g,
   offers |-> [o \in Owners |-> [a \in Assets |-> Absent(<< >>)]],
   holdings |-> [a \in Assets |->
                   [h \in Owners |-> IF h = alice THEN MaxAmount ELSE 0]],
   offered |-> [o \in Owners |-> [a \in Assets |-> 0]],
   moved |-> [o \in Owners |-> [a \in Assets |-> 0]],
   last |-> NoCall]

(* The addresses an offer can authorize: no one, an owner, a third party.  *)
AuthAddresses == {zero_address, alice, carol}

(* The senders of the calls about offers.                                  *)
Senders == {alice, bob, carol}

Amounts == 0..MaxAmount

(* offer_amt.load() - royalty_asset_amount.get()                           *)
remaining_whole(offer_amt, royalty_asset_amount) == offer_amt

remaining(offer_amt, royalty_asset_amount) == offer_amt - royalty_asset_amount

(* offer: the sender holds the amount, the application is the clawback of  *)
(* the asset, and the offer of the sender is swapped.                      *)
CallOffer ==
  /\ arc.exists /\ arc.last.op = "none"
  /\ \E sender \in Owners, royalty_asset \in Assets,
        royalty_asset_amount \in Amounts, auth_address \in AuthAddresses,
        prev_offer_amt \in Amounts, prev_offer_auth \in AuthAddresses,
        cb_is_app \in BOOLEAN :
       LET bal == arc.holdings[royalty_asset][sender]
           args == [sender |-> sender, owner |-> sender,
                    royalty_asset |-> royalty_asset,
                    auth |-> auth_address, amt |-> royalty_asset_amount,
                    prev_auth |-> prev_offer_auth,
                    prev_amt |-> prev_offer_amt]
       IN  IF ~(bal >= royalty_asset_amount /\ cb_is_app)
           THEN arc' = [arc EXCEPT !.last = Rejected("offer")]
           ELSE \E r \in {do_update_offered(arc.offers, sender, royalty_asset,
                            auth_address, royalty_asset_amount,
                            prev_offer_auth, prev_offer_amt)} :
                  arc' = IF r.ok
                         THEN [arc EXCEPT
                                 !.offers = r.offers,
                                 !.offered[sender][royalty_asset] =
                                    royalty_asset_amount,
                                 !.moved[sender][royalty_asset] = 0,
                                 !.last = [op |-> "offer", ok |-> TRUE,
                                           stage |-> "done", args |-> args,
                                           pre |-> arc.offers, cas |-> r,
                                           inner |-> << >>]]
                         ELSE [arc EXCEPT
                                 !.last = [op |-> "offer", ok |-> FALSE,
                                           stage |-> "update", args |-> args,
                                           pre |-> arc.offers, cas |-> r,
                                           inner |-> << >>]]
  /\ UNCHANGED <<slots, call, app>>

(* The payment transaction that precedes the transfer call in its group.   *)
PaymentTxns ==
  [sender : {alice, carol}, asset_receiver : {current_application_address, alice},
   xfer_asset : {7, 8}, asset_amount : {4}]

(* valid_transfer_group of the transfer that takes an asset payment (the   *)
(* second definition of transfer, the one the class keeps).                *)
(* txn holds the sender, the group size and the arguments of the call.     *)
valid_transfer_group(a, offer, txn) ==
  /\ txn.group_size = 2
  /\ offer.has
  /\ offered_auth_ok(offer.v)
  /\ offered_amount_ok(offer.v)
  /\ txn.sender = offered_auth(offer.v)
  /\ txn.payment_txn.sender = offered_auth(offer.v)
  /\ txn.royalty_asset_amount <= offered_amount(offer.v)
  /\ txn.payment_txn.xfer_asset = txn.payment_asset
  /\ txn.payment_txn.asset_receiver = current_application_address
  /\ a.g.royalty_receiver.has
  /\ txn.royalty_receiver = a.g.royalty_receiver.v

CallTransfer ==
  /\ arc.exists /\ arc.last.op = "none"
  /\ \E sender \in Senders, royalty_asset \in Assets,
        royalty_asset_amount \in Amounts, owner \in Owners, buyer \in Owners,
        royalty_receiver \in {carol, alice}, payment_txn \in PaymentTxns,
        payment_asset \in {7}, offered_amt \in Amounts,
        group_size \in {2, 3} :
       LET offer == arc.offers[owner][royalty_asset]
           txn == [sender |-> sender, group_size |-> group_size,
                   royalty_asset_amount |-> royalty_asset_amount,
                   royalty_receiver |-> royalty_receiver,
                   payment_txn |-> payment_txn,
                   payment_asset |-> payment_asset]
       IN  IF ~valid_transfer_group(arc, offer, txn)
           THEN arc' = [arc EXCEPT !.last = Rejected("transfer")]
           ELSE
             LET offer_auth_addr == offered_auth(offer.v)
                 offer_amt == offered_amount(offer.v)
                 paid == do_pay_assets(arc.g, payment_txn.xfer_asset,
                                       payment_txn.asset_amount, owner)
                 mv == do_move_asset(arc.holdings, royalty_asset, owner,
                                     buyer, royalty_asset_amount)
                 args == [sender |-> sender, owner |-> owner,
                          royalty_asset |-> royalty_asset,
                          auth |-> offer_auth_addr,
                          amt |-> remaining(offer_amt, royalty_asset_amount),
                          prev_auth |-> sender, prev_amt |-> offered_amt,
                          royalty_asset_amount |-> royalty_asset_amount,
                          offer_amt |-> offer_amt,
                          buyer |-> buyer, group_size |-> group_size,
                          royalty_receiver |-> royalty_receiver,
                          payment_txn |-> payment_txn,
                          payment_asset |-> payment_asset]
             IN  IF ~(paid.ok /\ mv.ok)
                 THEN arc' = [arc EXCEPT !.last = Rejected("transfer")]
                 ELSE \E r \in {do_update_offered(arc.offers, owner,
                                  royalty_asset, offer_auth_addr,
                                  remaining(offer_amt, royalty_asset_amount),
                                  sender, offered_amt)} :
                        arc' = IF r.ok
                               THEN [arc EXCEPT
                                       !.offers = r.offers,
                                       !.holdings = mv.holdings,
                                       !.moved[owner][royalty_asset] =
                                          @ + royalty_asset_amount,
                                       !.last = [op |-> "transfer",
                                                 ok |-> TRUE, stage |-> "done",
                                                 args |-> args,
                                                 pre |-> arc.offers, cas |-> r,
                                                 inner |-> paid.inner]]
                               ELSE [arc EXCEPT
                                       !.last = [op |-> "transfer",
                                                 ok |-> FALSE,
                                                 stage |-> "update",
                                                 args |-> args,
                                                 pre |-> arc.offers, cas |-> r,
                                                 inner |-> paid.inner]]
  /\ UNCHANGED <<slots, call, app>>

(* royalty_free_move: the offer is read with get (0 when there is none, on *)
(* which Extract fails), deleted, and then the asset is moved.             *)
CallRoyaltyFreeMove ==
  /\ arc.exists /\ arc.last.op = "none"
  /\ \E sender \in Senders, royalty_asset \in Assets,
        royalty_asset_amount \in Amounts, owner \in Owners,
        receiver \in Owners, offered_amt \in Amounts :
       LET offer == arc.offers[owner][royalty_asset]
       IN  IF ~(/\ offer.has
                /\ offered_amount_ok(offer.v)
                /\ offered_auth_ok(offer.v)
                /\ offered_amount(offer.v) = offered_amt
                /\ offered_amount(offer.v) >= royalty_asset_amount
                /\ offered_auth(offer.v) = sender)
           THEN arc' = [arc EXCEPT !.last = Rejected("royalty_free_move")]
           ELSE
             LET curr_offer_amt == offered_amount(offer.v)
                 curr_offer_auth == offered_auth(offer.v)
                 r == do_update_offered(arc.offers, owner, royalty_asset,
                                        << >>, 0, curr_offer_auth,
                                        curr_offer_amt)
                 mv == do_move_asset(arc.holdings, royalty_asset, owner,
                                     receiver, royalty_asset_amount)
                 args == [sender |-> sender, owner |-> owner,
                          royalty_asset |-> royalty_asset,
                          auth |-> << >>, amt |-> 0,
                          prev_auth |-> curr_offer_auth,
                          prev_amt |-> curr_offer_amt,
                          royalty_asset_amount |-> royalty_asset_amount,
                          offer_amt |-> curr_offer_amt]
             IN  arc' = IF r.ok /\ mv.ok
                        THEN [arc EXCEPT
                                !.offers = r.offers,
                                !.holdings = mv.holdings,
                                !.moved[owner][royalty_asset] =
                                   @ + royalty_asset_amount,
                                !.last = [op |-> "royalty_free_move",
                                          ok |-> TRUE, stage |-> "done",
                                          args |-> args, pre |-> arc.offers,
                                          cas |-> r, inner |-> << >>]]
                        ELSE [arc EXCEPT
                                !.last = Rejected("royalty_free_move")]
  /\ UNCHANGED <<slots, call, app>>

(* The next call finds the ledger the last one left.                       *)
ReturnARC18 ==
  /\ arc.exists /\ arc.last.op # "none"
  /\ arc' = [arc EXCEPT !.last = NoCall]
  /\ UNCHANGED <<slots, call, app>>

(* The application after create, with or without a royalty policy, the     *)
(* whole supply of the asset with one owner.                               *)
InitOffers ==
  /\ slots = [acct \in Accounts |->
               [k \in {byte_keys[i] : i \in DOMAIN byte_keys} |-> UintZero]]
  /\ call = Idle
  /\ app = NoApplication
  /\ arc \in {Created(g, TRUE) :
                g \in {initialize_app_state,
                       [initialize_app_state EXCEPT
                          !.royalty_basis = Present(2500),
                          !.royalty_receiver = Present(carol)]}}

NextOffers ==
  \/ CallOffer
  \/ CallTransfer
  \/ CallRoyaltyFreeMove
  \/ ReturnARC18

SpecOffers == InitOffers /\ [][NextOffers]_vars

(***************************************************************************)
(* The two payment subroutines on their own: any purchase amount with any  *)
(* royalty basis, also bases above basis_point_multiplier.                 *)
(***************************************************************************)

PurchaseAmounts == {0, 1, 3, 4, 9999, 10000, 10001, 39999, MaxUint64}

RoyaltyBases == {0, 1, 2500, 5000, 9999, 10000, 10001, 30000}

PaymentInput(purchase_amt, royalty_basis) ==
  [exists |-> FALSE, op |-> "input", purchase_amt |-> purchase_amt,
   royalty_basis |-> royalty_basis, owner |-> alice,
   royalty_receiver |-> carol, result |-> [ok |-> TRUE, inner |-> << >>]]

CallDoPayAlgos ==
  /\ arc.op = "input"
  /\ arc' = [arc EXCEPT
               !.op = "do_pay_algos",
               !.result = do_pay_algos(arc.purchase_amt, arc.owner,
                                       arc.royalty_receiver,
                                       arc.royalty_basis)]
  /\ UNCHANGED <<slots, call, app>>

CallDoPayAssets ==
  /\ arc.op = "input"
  /\ arc' = [arc EXCEPT
               !.op = "do_pay_assets",
               !.result = do_pay_assets(
                            [initialize_app_state EXCEPT
                               !.royalty_basis = Present(arc.royalty_basis),
                               !.royalty_receiver =
                                  Present(arc.royalty_receiver)],
                            7, arc.purchase_amt, arc.owner)]
  /\ UNCHANGED <<slots, call, app>>

InitPayments ==
  /\ slots = [acct \in Accounts |->
               [k \in {byte_keys[i] : i \in DOMAIN byte_keys} |-> UintZero]]
  /\ call = Idle
  /\ app = NoApplication
  /\ arc \in {PaymentInput(p, b) : p \in PurchaseAmounts, b \in RoyaltyBases}

NextPayments == CallDoPayAlgos \/ CallDoPayAssets

SpecPayments == InitPayments /\ [][NextPayments]_vars

(***************************************************************************)
(* ARC18: the administrator's handlers and the bare update and delete.     *)
(***************************************************************************)

(* Authorize.only(administrator), and the Assert of update and delete.     *)
authorized(g, sender) == g.administrator.has /\ sender = g.administrator.v

(* set of a global state value.  The two policy values are declared        *)
(* static=True; the state library is not among the sources, so a static    *)
(* value either rejects a second set (static_once) or is set like any      *)
(* other.                                                                  *)
global_set_ok(a, key, static) == ~(static /\ a.static_once /\ a.g[key].has)

(* Any basis passes.                                                       *)
policy_allowed_any(royalty_basis) == TRUE

(* Assert(royalty_basis.get() <= self.basis_point_multiplier)              *)
policy_allowed(royalty_basis) == royalty_basis <= basis_point_multiplier

(* The body of set_policy: the global state as the body leaves it, and the *)
(* keys it has put, up to the step that fails.                             *)
set_policy(a, royalty_basis, royalty_receiver) ==
  LET g1 == [a.g EXCEPT !.royalty_basis = Present(royalty_basis)]
      g2 == [g1 EXCEPT !.royalty_receiver = Present(royalty_receiver)]
  IN  IF ~policy_allowed(royalty_basis)
        THEN [ok |-> FALSE, g |-> a.g, puts |-> << >>]
      ELSE IF ~global_set_ok(a, "royalty_basis", TRUE)
        THEN [ok |-> FALSE, g |-> a.g, puts |-> << >>]
      ELSE IF ~global_set_ok(a, "royalty_receiver", TRUE)
        THEN [ok |-> FALSE, g |-> g1, puts |-> <<"royalty_basis">>]
      ELSE [ok |-> TRUE, g |-> g2,
            puts |-> <<"royalty_basis", "royalty_receiver">>]

(* The administrators a call can name, and the senders of the calls.       *)
AdminAddresses == {creator_address, alice, bob}

PolicyBases == {0, 2500, basis_point_multiplier, basis_point_multiplier + 1,
                MaxUint64}

AdminCall(op, ok, args, pre, puts) ==
  [op |-> op, ok |-> ok, stage |-> "admin", args |-> args, pre |-> pre,
   puts |-> puts]

(* Every sender is let in.                                                 *)
guard_open(a, sender) == TRUE

(* The guard in front of the administrator's handlers and of update and    *)
(* delete.                                                                 *)
guard(a, sender) == authorized(a.g, sender)

CallUpdate ==
  /\ arc.exists /\ arc.last.op = "none"
  /\ \E sender \in AdminAddresses :
       arc' = [arc EXCEPT
                 !.updated = @ \/ guard(arc, sender),
                 !.last = AdminCall("update", guard(arc, sender),
                                    [sender |-> sender], arc, << >>)]
  /\ UNCHANGED <<slots, call, app>>

CallDelete ==
  /\ arc.exists /\ arc.last.op = "none"
  /\ \E sender \in AdminAddresses :
       arc' = [arc EXCEPT
                 !.exists = ~guard(arc, sender),
                 !.last = AdminCall("delete", guard(arc, sender),
                                    [sender |-> sender], arc, << >>)]
  /\ UNCHANGED <<slots, call, app>>

CallSetAdministrator ==
  /\ arc.exists /\ arc.last.op = "none"
  /\ \E sender \in AdminAddresses, new_admin \in AdminAddresses :
       LET args == [sender |-> sender, new_admin |-> new_admin]
       IN  arc' = IF guard(arc, sender)
                  THEN [arc EXCEPT
                          !.g.administrator = Present(new_admin),
                          !.last = AdminCall("set_administrator", TRUE, args,
                                             arc, <<"admin">>)]
                  ELSE [arc EXCEPT
                          !.last = AdminCall("set_administrator", FALSE, args,
                                             arc, << >>)]
  /\ UNCHANGED <<slots, call, app>>

CallSetPolicy ==
  /\ arc.exists /\ arc.last.op = "none"
  /\ \E sender \in AdminAddresses, royalty_basis \in PolicyBases,
        royalty_receiver \in {carol, alice} :
       LET args == [sender |-> sender, royalty_basis |-> royalty_basis,
                    royalty_receiver |-> royalty_receiver]
           r == set_policy(arc, royalty_basis, royalty_receiver)
       IN  arc' = IF ~guard(arc, sender)
                  THEN [arc EXCEPT
                          !.last = AdminCall("set_policy", FALSE, args, arc,
                                             << >>)]
                  ELSE IF r.ok
                  THEN [arc EXCEPT
                          !.g = r.g,
                          !.last = AdminCall("set_policy", TRUE, args, arc,
                                             r.puts)]
                  ELSE [arc EXCEPT
                          !.last = AdminCall("set_policy", FALSE, args, arc,
                                             r.puts)]
  /\ UNCHANGED <<slots, call, app>>

(* set_payment_asset: the application opts in to, or closes out of, a      *)
(* payment asset; it stores nothing.                                       *)
CallSetPaymentAsset ==
  /\ arc.exists /\ arc.last.op = "none"
  /\ \E sender \in AdminAddresses, is_allowed \in BOOLEAN :
       LET args == [sender |-> sender, is_allowed |-> is_allowed]
       IN  arc' = IF guard(arc, sender)
                  THEN [arc EXCEPT
                          !.payment_asset_opted_in = is_allowed,
                          !.last = AdminCall("set_payment_asset", TRUE, args,
                                             arc, << >>)]
                  ELSE [arc EXCEPT
                          !.last = AdminCall("set_payment_asset", FALSE, args,
                                             arc, << >>)]
  /\ UNCHANGED <<slots, call, app>>

InitAdmin ==
  /\ slots = [acct \in Accounts |->
               [k \in {byte_keys[i] : i \in DOMAIN byte_keys} |-> UintZero]]
  /\ call = Idle
  /\ app = NoApplication
  /\ arc \in {Created(initialize_app_state, once) : once \in BOOLEAN}

NextAdmin ==
  \/ CallUpdate
  \/ CallDelete
  \/ CallSetAdministrator
  \/ CallSetPolicy
  \/ CallSetPaymentAsset
  \/ ReturnARC18

SpecAdmin == InitAdmin /\ [][NextAdmin]_vars

(***************************************************************************)
(* The logical buffer: what the claims speak about                         *)
(***************************************************************************)

(* Every slot of the key space holds bytes (zero has run, or every page    *)
(* has been written).                                                      *)
Initialized(sl) == \A i \in DOMAIN byte_keys : IsBytes(sl[byte_keys[i]])

(* The byte at logical offset o: slot key_space[o div page_size],          *)
(* position o mod page_size; -1 where the slot holds no such byte.         *)
ByteAt(sl, o) ==
  LET page == sl[byte_keys[o \div BLOB_PAGE_SIZE]]
      pos == o % BLOB_PAGE_SIZE
  IN IF IsBytes(page) /\ pos < Len(page.b) THEN page.b[pos + 1] ELSE -1

(* The logical range [s, e) of the blob, s <= e <= capacity_bytes.         *)
Range(sl, s, e) == [i \in 1..(e - s) |-> ByteAt(sl, s + i - 1)]

(* The flat byte array A the slots stand for.                              *)
Flat(sl) == Range(sl, 0, capacity_bytes)

(* The operations of the flat array.                                       *)
FlatSetByte(A, o, v) == [A EXCEPT ![o + 1] = v]

FlatWrite(A, s, data) ==
  [i \in 1..Len(A) |->
     IF s < i /\ i <= s + Len(data) THEN data[i - s] ELSE A[i]]

FlatRead(A, s, e) == SubSeq(A, s + 1, e)

(* The local state of the account of the call, before and after it.       *)
Before == call.pre[call.acct]

After == slots[call.acct]

(* The call just made ran on an initialized blob.                          *)
OnInitialized(op) == call.op = op /\ Initialized(Before)

(* C1: on an initialized blob, write(start, data) with                     *)
(* start + len(data) <= capacity_bytes succeeds and a following            *)
(* read(start, start + len(data)) returns exactly data, also when the      *)
(* range ends on a page boundary or at capacity_bytes.                     *)
C1_WriteReadRoundTrip ==
  (OnInitialized("write") /\ call.b <= capacity_bytes)
    => /\ call.ok
       /\ read(slots, call.acct, call.a, call.b).ok
       /\ read(slots, call.acct, call.a, call.b).out = call.data

(* C2: an in-range write on an initialized blob leaves every logical byte  *)
(* below start or at or above start + len(data) as it was, on the merged   *)
(* boundary pages and on the pages the write does not cover.               *)
C2_WriteFrame ==
  (OnInitialized("write") /\ call.b <= capacity_bytes)
    => \A o \in 0..(capacity_bytes - 1) :
         (o < call.a \/ o >= call.b) => ByteAt(After, o) = ByteAt(Before, o)

(* C2 witness: a write that starts and ends inside two different pages     *)
(* has succeeded, and a byte outside its range was 1 on each of them.      *)
C2_Witness ==
  /\ OnInitialized("write") /\ call.ok
  /\ call.a % BLOB_PAGE_SIZE # 0 /\ call.b % BLOB_PAGE_SIZE # 0
  /\ _key_idx(call.a) < _key_idx(call.b) /\ call.b < capacity_bytes
  /\ ByteAt(Before, call.a - 1) = 1 /\ ByteAt(Before, call.b) = 1
  /\ slots # call.pre

(* C3: after set_byte(offset, v) with offset < capacity_bytes and v a      *)
(* byte, get_byte(offset) returns v and every other byte is unchanged.     *)
C3_SetByteGetByte ==
  (OnInitialized("set_byte") /\ call.a < capacity_bytes /\ call.b <= 255)
    => /\ call.ok
       /\ get_byte(slots, call.acct, call.a).ok
       /\ get_byte(slots, call.acct, call.a).out = <<call.b>>
       /\ \A o \in 0..(capacity_bytes - 1) :
            o # call.a => ByteAt(After, o) = ByteAt(Before, o)

(* C3 witness: set_byte has changed a byte that is not the first of its    *)
(* page, on a page after the first, next to a byte that holds 1.           *)
C3_Witness ==
  /\ OnInitialized("set_byte") /\ call.ok
  /\ _key_idx(call.a) > 0 /\ _offset_for_idx(call.a) > 0
  /\ ByteAt(Before, call.a) # call.b
  /\ ByteAt(Before, call.a - 1) = 1
  /\ ByteAt(After, call.a) = call.b

(* C4: the paged engine refines the flat array A = Flat(After): every      *)
(* in-range set_byte and write takes slots standing for A to slots         *)
(* standing for the result of the same operation on A, zero yields the     *)
(* all-zero array, and every get_byte(o) and read(s, e) returns A[o] and   *)
(* A[s..e).                                                                *)
C4_RefinesFlatArray ==
  LET A == Flat(Before)
  IN /\ call.op = "zero" => Flat(After) = [i \in 1..capacity_bytes |-> 0]
     /\ (OnInitialized("set_byte") /\ call.a < capacity_bytes /\ call.b <= 255)
          => call.ok /\ Flat(After) = FlatSetByte(A, call.a, call.b)
     /\ (OnInitialized("write") /\ call.b <= capacity_bytes)
          => call.ok /\ Flat(After) = FlatWrite(A, call.a, call.data)
     /\ (OnInitialized("get_byte") /\ call.a < capacity_bytes)
          => call.ok /\ call.out = <<A[call.a + 1]>>
     /\ (OnInitialized("read") /\ call.a <= call.b /\ call.b <= capacity_bytes)
          => call.ok /\ call.out = FlatRead(A, call.a, call.b)

(* C5: read(start, end) with 0 <= start <= end <= capacity_bytes succeeds  *)
(* and returns the end - start bytes of the logical range [start, end),    *)
(* also when end is a multiple of the page size or capacity_bytes.         *)
C5_ReadReturnsRange ==
  (OnInitialized("read") /\ call.a <= call.b /\ call.b <= capacity_bytes)
    => /\ call.ok
       /\ Len(call.out) = call.b - call.a
       /\ call.out = Range(Before, call.a, call.b)

(* C6: after zero(), whatever came before, read(0, capacity_bytes)         *)
(* returns capacity_bytes zero bytes, and a second zero() changes nothing. *)
C6_ZeroThenReadAll ==
  call.op = "zero"
    => /\ read(slots, call.acct, 0, capacity_bytes).ok
       /\ read(slots, call.acct, 0, capacity_bytes).out = [i \in 1..capacity_bytes |-> 0]
       /\ zero(slots, call.acct).sl = slots

(* C7: every slot that exists holds exactly page-size bytes, and every     *)
(* value handed to the slot store's put has exactly that length.           *)
C7_PagesHavePageSize ==
  /\ \A acct \in DOMAIN slots : \A k \in DOMAIN slots[acct] :
       IsBytes(slots[acct][k]) => Len(slots[acct][k].b) = BLOB_PAGE_SIZE
  /\ \A n \in DOMAIN call.log :
       call.log[n].c = "put" => Len(call.log[n].value) = BLOB_PAGE_SIZE

(* C7 witness: one write has put a full page from the fast path and a      *)
(* merged page from the three-part concatenation.                          *)
C7_Witness ==
  /\ OnInitialized("write") /\ call.ok
  /\ \E n \in DOMAIN call.steps : is_partial(call.steps[n].start, call.steps[n].stop)
  /\ \E n \in DOMAIN call.steps : ~is_partial(call.steps[n].start, call.steps[n].stop)
  /\ \E n \in DOMAIN call.log : call.log[n].c = "put"

(* C8: get_byte and set_byte with offset >= capacity_bytes and read with   *)
(* end > capacity_bytes fail, and fail before any slot-store get or put.   *)
C8_OutOfRangeBeforeAnyCall ==
  (\/ OnInitialized("read") /\ call.a <= call.b /\ call.b > capacity_bytes
   \/ OnInitialized("get_byte") /\ call.a >= capacity_bytes
   \/ OnInitialized("set_byte") /\ call.a >= capacity_bytes)
    => ~call.ok /\ call.log = << >>

(* C9: write(start, data) with start + len(data) > capacity_bytes fails    *)
(* before any slot-store get or put, so every slot is as before.           *)
C9_WriteOutOfRangeBeforeAnyCall ==
  (OnInitialized("write") /\ call.b > capacity_bytes)
    => ~call.ok /\ call.log = << >> /\ slots = call.pre

(* C10: read(start, end) with start > end fails, on one page or across     *)
(* pages; it never returns a byte sequence.                                *)
C10_ReadReversedFails ==
  (OnInitialized("read") /\ call.a > call.b) => ~call.ok

(* The slot-store calls of the call just made that are gets, or puts, on   *)
(* the key of page index i.                                                *)
GetsOf(i) ==
  {n \in DOMAIN call.log :
     call.log[n].c = "get" /\ call.log[n].key = byte_keys[i]}

PutsOf(i) ==
  {n \in DOMAIN call.log :
     call.log[n].c = "put" /\ call.log[n].key = byte_keys[i]}

(* C11: in write, a page the write covers from 0 to the page size is put   *)
(* (with its slice of data) without any get of that page; write(0, data)   *)
(* with len(data) = capacity_bytes issues no get during the whole call.    *)
C11_FullPageNoGet ==
  call.op = "write"
    => /\ \A n \in DOMAIN call.steps :
            (call.steps[n].start = 0 /\ call.steps[n].stop = BLOB_PAGE_SIZE)
              => /\ GetsOf(call.steps[n].key_idx) = {}
                 /\ \E m \in PutsOf(call.steps[n].key_idx) :
                      call.log[m].value
                        = SubSeq(call.data, call.steps[n].written + 1,
                                 call.steps[n].written + BLOB_PAGE_SIZE)
       /\ (call.a = 0 /\ Len(call.data) = capacity_bytes)
            => \A n \in DOMAIN call.log : call.log[n].c # "get"

(* C11 witness: on an initialized blob holding a 1, write(0, data) with    *)
(* len(data) = capacity_bytes has put every page.                          *)
C11_Witness ==
  /\ OnInitialized("write")
  /\ call.a = 0 /\ Len(call.data) = capacity_bytes
  /\ \E o \in 0..(capacity_bytes - 1) : ByteAt(Before, o) = 1
  /\ \A i \in DOMAIN byte_keys : PutsOf(i) # {}

(* C12: read(start, end) and write(start, data) with start < end and end   *)
(* a multiple of the page size issue no get or put for page index          *)
(* end div page_size, and look up no key for a page index >= max_keys      *)
(* (the lookup of such an index is what makes an in-range call fail).      *)
C12_OnlyPagesInRange ==
  (/\ OnInitialized("read") \/ OnInitialized("write")
   /\ call.a < call.b /\ call.b <= capacity_bytes
   /\ call.b % BLOB_PAGE_SIZE = 0)
    => /\ call.b \div BLOB_PAGE_SIZE < max_keys
            => /\ GetsOf(call.b \div BLOB_PAGE_SIZE) = {}
               /\ PutsOf(call.b \div BLOB_PAGE_SIZE) = {}
       /\ call.ok

(* C13: read(start, end) with start = end, for every start in              *)
(* [0, capacity_bytes], returns the empty byte sequence and issues no      *)
(* slot-store get or put.                                                  *)
C13_EmptyReadNoCall ==
  (OnInitialized("read") /\ call.a = call.b /\ call.a <= capacity_bytes)
    => call.ok /\ call.out = << >> /\ call.log = << >>

(* C14: a write that spans exactly one page boundary (start on page k,     *)
(* its last byte on page k + 1) succeeds and turns page k into its old     *)
(* bytes before start_k followed by the head of data, and page k + 1 into  *)
(* the tail of data followed by its old bytes from stop_k on, so the bytes *)
(* at page_size - 2 and page_size + 2 survive a write of                   *)
(* page_size - 1 .. page_size + 1; and on an all-zero blob                 *)
(* write(page_size - 2, four bytes d) makes read(1, 2 * page_size - 1)     *)
(* return zeros, d, zeros (page size 4: pages [0,0,d1,d2], [d3,d4,0,0]     *)
(* and read(1, 7) = [0,d1,d2,d3,d4,0]).                                    *)
C14_BoundaryWriteMerges ==
  (/\ OnInitialized("write")
   /\ call.a < call.b /\ call.b <= capacity_bytes
   /\ _key_idx(call.b - 1) = _key_idx(call.a) + 1)
    => LET k == _key_idx(call.a)
           start_k == _offset_for_idx(call.a)
           stop_k == call.b - (k + 1) * BLOB_PAGE_SIZE
           head == BLOB_PAGE_SIZE - start_k
           zeros == [i \in 1..(BLOB_PAGE_SIZE - 3) |-> 0]
       IN /\ call.ok
          /\ After[byte_keys[k]].b
               = SubSeq(Before[byte_keys[k]].b, 1, start_k)
                   \o SubSeq(call.data, 1, head)
          /\ After[byte_keys[k + 1]].b
               = SubSeq(call.data, head + 1, Len(call.data))
                   \o SubSeq(Before[byte_keys[k + 1]].b, stop_k + 1,
                             BLOB_PAGE_SIZE)
          /\ (/\ Flat(Before) = [i \in 1..capacity_bytes |-> 0]
              /\ call.a = BLOB_PAGE_SIZE - 2 /\ Len(call.data) = 4)
               => /\ read(slots, call.acct, 1, 2 * BLOB_PAGE_SIZE - 1).ok
                  /\ read(slots, call.acct, 1, 2 * BLOB_PAGE_SIZE - 1).out
                       = (zeros \o call.data) \o zeros

(* C15: zero(acct) issues exactly max_keys slot-store calls, all puts:     *)
(* the n-th puts the all-zero page of page-size length under the n-th key  *)
(* of the key space for acct, and the local state of every other account   *)
(* is left as it was.                                                      *)
C15_ZeroPutsEachKeyOnce ==
  call.op = "zero"
    => /\ Len(call.log) = max_keys
       /\ \A n \in DOMAIN call.log :
            call.log[n] = [c |-> "put", acct |-> call.acct,
                           key |-> byte_keys[n - 1],
                           value |-> [i \in 1..BLOB_PAGE_SIZE |-> 0]]
       /\ \A i \in DOMAIN byte_keys :
            After[byte_keys[i]]
              = BytesValue([j \in 1..BLOB_PAGE_SIZE |-> 0])
       /\ \A acct \in Accounts \ {call.acct} : slots[acct] = call.pre[acct]

(* C15 witness: zero has run for the other account while the sender's      *)
(* blob holds a 1.                                                         *)
C15_Witness ==
  /\ call.op = "zero" /\ call.acct = "other"
  /\ Initialized(slots["sender"])
  /\ \E o \in 0..(capacity_bytes - 1) : ByteAt(slots["sender"], o) = 1

(* C16: set_byte(offset, v) with offset < capacity_bytes issues one get    *)
(* and then one put, both on key_space[offset div page_size], and puts     *)
(* the fetched page with position offset mod page_size replaced by v;      *)
(* get_byte(offset) issues one get on that key and no put.                 *)
C16_ByteCallsOfSlotStore ==
  LET key == byte_keys[call.a \div BLOB_PAGE_SIZE]
  IN /\ (/\ OnInitialized("set_byte")
         /\ call.a < capacity_bytes /\ call.b <= 255)
          => call.log
               = << [c |-> "get", acct |-> call.acct, key |-> key,
                     value |-> << >>],
                    [c |-> "put", acct |-> call.acct, key |-> key,
                     value |-> [Before[key].b
                                  EXCEPT ![(call.a % BLOB_PAGE_SIZE) + 1]
                                           = call.b]] >>
     /\ (OnInitialized("get_byte") /\ call.a < capacity_bytes)
          => call.log = << [c |-> "get", acct |-> call.acct, key |-> key,
                            value |-> << >>] >>

(* C16 witness: set_byte has put a changed page other than the first, at   *)
(* a position other than the first.                                        *)
C16_Witness ==
  /\ OnInitialized("set_byte") /\ call.ok
  /\ call.a \div BLOB_PAGE_SIZE > 0 /\ call.a % BLOB_PAGE_SIZE > 0
  /\ Len(call.log) = 2 /\ slots # call.pre

(* C18: in write, written is 0 at the first page; at each later page it    *)
(* is the number of bytes placed in the pages before; the page put holds   *)
(* data[written, written + (stop_k - start_k)) between start_k and stop_k; *)
(* no slice reaches past the end of data; and when the loop ends written   *)
(* equals len(data).                                                       *)
C18_WrittenCounter ==
  call.op = "write"
    => LET st == call.steps
           size(n) == st[n].stop - st[n].start
       IN /\ st # << >> => st[1].written = 0
          /\ \A n \in DOMAIN st :
               /\ n > 1 => st[n].written = st[n - 1].written + size(n - 1)
               /\ st[n].written + size(n) <= Len(call.data)
               /\ \A m \in PutsOf(st[n].key_idx) :
                    SubSeq(call.log[m].value, st[n].start + 1, st[n].stop)
                      = SubSeq(call.data, st[n].written + 1,
                               st[n].written + size(n))
          /\ call.ok
               => /\ st # << >>
                  /\ st[Len(st)].written + st[Len(st)].delta = Len(call.data)

(* C18 witness: a write has put a full page and then a merged page, the    *)
(* second from a slice that does not start the data.                       *)
C18_Witness ==
  /\ OnInitialized("write") /\ call.ok
  /\ Len(call.steps) >= 2
  /\ call.steps[2].written > 0
  /\ call.steps[2].stop > call.steps[2].start
  /\ PutsOf(call.steps[2].key_idx) # {}

BareOf(oc) ==
  {n \in DOMAIN app.attrs :
     app.attrs[n].kind = "bare" /\ oc \in app.attrs[n].ocs}

RegisteredOCs ==
  UNION {app.attrs[n].ocs : n \in {m \in DOMAIN app.attrs :
                                     app.attrs[m].kind = "bare"}}

(* C17: when a second attribute registers a bare handler for an            *)
(* on-completion action that already has one, construction raises          *)
(* BareOverwriteError carrying that action and no router is built (and a   *)
(* class with such a pair never gets a router); otherwise bare_handlers    *)
(* maps every registered on-completion action to exactly one action, the   *)
(* one of the only attribute that declares it, and the router is built     *)
(* from that map.                                                          *)
C17_BareOverwriteRaises ==
  /\ app.status = "raised" =>
       /\ app.router = << >>
       /\ app.error \in DOMAIN app.bare_handlers
       /\ \E n \in BareOf(app.error) :
            /\ n # app.bare_handlers[app.error]
            /\ n \notin app.todo
       /\ app.bare_handlers[app.error] \in BareOf(app.error)
  /\ app.status = "built" =>
       /\ \A oc \in RegisteredOCs : Cardinality(BareOf(oc)) = 1
       /\ DOMAIN app.bare_handlers = RegisteredOCs
       /\ \A oc \in RegisteredOCs : BareOf(oc) = {app.bare_handlers[oc]}
       /\ app.router.bare_calls = app.bare_handlers
  /\ app.status = "scan" =>
       /\ app.router = << >>
       /\ \A oc \in DOMAIN app.bare_handlers :
            /\ app.bare_handlers[oc] \in BareOf(oc) \ app.todo
            /\ BareOf(oc) \ app.todo = {app.bare_handlers[oc]}

(* A handler of two actions was visited after a handler of the second one: *)
(* it registered its first action and raised on the second.                *)
C17_Witness ==
  /\ app.status = "raised"
  /\ app.error = "opt_in"
  /\ "no_op" \in DOMAIN app.bare_handlers
  /\ app.bare_handlers["no_op"] # app.bare_handlers["opt_in"]

(* C20: every ABI method is added to the router with the method_config of  *)
(* its own handler, whatever the order the attributes were visited in.     *)
C20_OwnMethodConfig ==
  app.status = "built" =>
    \A n \in DOMAIN app.router.method_handlers :
      LET h == app.router.method_handlers[n]
      IN  h.method_config = app.attrs[h.method_call].method_config

(***************************************************************************)
(* Claims about ARC18.                                                     *)
(***************************************************************************)

(* The last call reached do_update_offered.                                *)
Updating == arc.last.stage \in {"done", "update"}

(* The offer of the call's owner for the call's asset, in a local state.   *)
OfferIn(offers) == offers[arc.last.args.owner][arc.last.args.royalty_asset]

StoredOffers ==
  {arc.offers[o][a] : o \in Owners, a \in Assets} \ {Absent(<< >>)}

(* C21: do_update_offered is a compare-and-swap on the offer stored for    *)
(* (acct, asset).  It succeeds only if a stored offer has amount prev_amt  *)
(* and auth prev_auth, or none is stored and prev_amt is 0 and prev_auth   *)
(* the zero address.  On success the stored offer becomes (auth, amt) when *)
(* amt > 0 and is deleted when amt = 0, and no other offer changes; on     *)
(* failure no offer changes.  No reachable state stores an offer of        *)
(* amount 0.                                                               *)
C21_UpdateOfferedIsCompareAndSwap ==
  /\ Updating =>
       LET a == arc.last.args
           before == OfferIn(arc.last.pre)
           after == OfferIn(arc.last.cas.offers)
       IN  /\ arc.last.cas.ok =>
                /\ \/ /\ before.has
                      /\ BigEndian(SubSeq(before.v, AddressLength + 1,
                                          Len(before.v))) = a.prev_amt
                      /\ SubSeq(before.v, 1, AddressLength) = a.prev_auth
                   \/ /\ ~before.has
                      /\ a.prev_amt = 0
                      /\ a.prev_auth = zero_address
                /\ a.amt > 0 => after = Present(a.auth \o Itob(a.amt))
                /\ a.amt > 0 =>
                     BigEndian(SubSeq(after.v, AddressLength + 1,
                                      Len(after.v))) = a.amt
                /\ a.amt = 0 => ~after.has
                /\ \A o \in Owners, s \in Assets :
                     <<o, s>> # <<a.owner, a.royalty_asset>> =>
                       arc.last.cas.offers[o][s] = arc.last.pre[o][s]
           /\ ~arc.last.cas.ok => arc.last.cas.offers = arc.last.pre
           /\ arc.offers = IF arc.last.ok THEN arc.last.cas.offers
                           ELSE arc.last.pre
  /\ \A offer \in StoredOffers :
       /\ Len(offer.v) = AddressLength + Uint64Length
       /\ BigEndian(SubSeq(offer.v, AddressLength + 1, Len(offer.v))) > 0

(* An offer call swapped a stored offer for another one.                   *)
C21_Witness ==
  /\ arc.last.op = "offer"
  /\ arc.last.ok
  /\ OfferIn(arc.last.pre).has
  /\ OfferIn(arc.offers).has
  /\ OfferIn(arc.offers) # OfferIn(arc.last.pre)

(* C22: transfer succeeds only if the group has exactly 2 transactions,    *)
(* the owner's offer for the asset is stored, the sender of the call and   *)
(* the sender of the payment are the offer's authorized address, the       *)
(* payment goes to the application address, the royalty receiver passed is *)
(* the stored one, and the amount is at most the offered amount.  Over any *)
(* sequence of offer, transfer and royalty_free_move calls the amount      *)
(* moved out of one offer never exceeds the amount offered.                *)
C22_TransferWithinOffer ==
  /\ (arc.last.op = "transfer" /\ arc.last.ok) =>
       LET a == arc.last.args
           offer == OfferIn(arc.last.pre)
           auth == SubSeq(offer.v, 1, AddressLength)
           amt == BigEndian(SubSeq(offer.v, AddressLength + 1, Len(offer.v)))
       IN  /\ a.group_size = 2
           /\ offer.has
           /\ a.sender = auth
           /\ a.payment_txn.sender = auth
           /\ a.payment_txn.asset_receiver = current_application_address
           /\ arc.g.royalty_receiver = Present(a.royalty_receiver)
           /\ a.royalty_asset_amount <= amt
  /\ \A o \in Owners, s \in Assets : arc.moved[o][s] <= arc.offered[o][s]

(* A second transfer out of the same offer moved the rest of it.           *)
C22_Witness ==
  /\ arc.last.op = "transfer"
  /\ arc.last.ok
  /\ arc.last.args.royalty_asset_amount = 1
  /\ arc.moved[arc.last.args.owner][arc.last.args.royalty_asset] = 2
  /\ arc.offered[arc.last.args.owner][arc.last.args.royalty_asset] = 2

(* C23: after every successful transfer no offer for the transferred asset *)
(* remains stored for the owner, whether the transfer moved the whole      *)
(* offered amount or part of it.                                           *)
C23_TransferClearsListing ==
  (arc.last.op = "transfer" /\ arc.last.ok) => ~OfferIn(arc.offers).has

(* C24: in do_pay_algos and do_pay_assets the royalty is                   *)
(* floor(purchase_amt * royalty_basis / 10000); the owner is paid          *)
(* purchase_amt minus the royalty, the royalty receiver is paid the        *)
(* royalty and only when it is above 0, the two payments sum to            *)
(* purchase_amt, and for every royalty_basis in 0..10000 the subtraction   *)
(* does not go below zero (the payments are submitted).                    *)
C24_RoyaltySplit ==
  arc.op \in {"do_pay_algos", "do_pay_assets"} =>
    LET p == arc.purchase_amt
        b == arc.royalty_basis
        inner == arc.result.inner
    IN  /\ arc.result.ok =>
             LET royalty_amt == p - inner[1].amount
             IN  /\ Len(inner) \in {1, 2}
                 /\ inner[1].receiver = arc.owner
                 /\ inner[1].amount >= 0
                 /\ royalty_amt * 10000 <= p * b
                 /\ p * b < (royalty_amt + 1) * 10000
                 /\ Len(inner) = 2 <=> royalty_amt > 0
                 /\ Len(inner) = 2 =>
                      /\ inner[2].receiver = arc.royalty_receiver
                      /\ inner[2].amount = royalty_amt
                      /\ inner[1].amount + inner[2].amount = p
                 /\ Len(inner) = 1 => inner[1].amount = p
        /\ b \in 0..10000 => arc.result.ok

(* A purchase of 3 at 50%: the royalty is rounded down to 1, the owner     *)
(* gets 2.                                                                 *)
C24_Witness ==
  /\ arc.op = "do_pay_assets"
  /\ arc.result.ok
  /\ arc.purchase_amt = 3
  /\ Len(arc.result.inner) = 2
  /\ arc.result.inner[1].amount = 2
  /\ arc.result.inner[2].amount = 1

(* The global state before the last call of an administrator's handler.    *)
GlobalBefore == arc.last.pre.g

(* C25: in every reachable state the stored royalty_basis is at most       *)
(* 10000; set_policy checks royalty_basis <= 10000 before it stores        *)
(* anything, and a set_policy call that fails this check leaves            *)
(* royalty_basis and royalty_receiver unchanged.                           *)
C25_RoyaltyBasisBounded ==
  /\ arc.g.royalty_basis.v <= 10000
  /\ (arc.last.op = "set_policy" /\ arc.last.args.royalty_basis > 10000) =>
       /\ ~arc.last.ok
       /\ arc.last.puts = << >>
       /\ arc.g.royalty_basis = GlobalBefore.royalty_basis
       /\ arc.g.royalty_receiver = GlobalBefore.royalty_receiver

(* The administrator asked for a basis of 10001 over a stored policy.      *)
C25_Witness ==
  /\ arc.last.op = "set_policy"
  /\ arc.last.args.sender = arc.g.administrator.v
  /\ arc.last.args.royalty_basis = 10001
  /\ ~arc.last.ok
  /\ arc.g.royalty_basis = Present(2500)

(* C26: the stored administrator changes only by a set_administrator call  *)
(* sent by the current administrator, the royalty policy only by a         *)
(* set_policy call sent by the current administrator, and update and       *)
(* delete are rejected for any other sender; after set_administrator the   *)
(* only address that passes these checks is new_admin, so the previous     *)
(* administrator no longer does.                                           *)
C26_AdministratorOnly ==
  arc.last.stage = "admin" =>
    LET a == arc.last.args
        was_admin == a.sender = GlobalBefore.administrator.v
    IN  /\ arc.g.administrator # GlobalBefore.administrator =>
             arc.last.op = "set_administrator" /\ arc.last.ok /\ was_admin
        /\ (\/ arc.g.royalty_basis # GlobalBefore.royalty_basis
            \/ arc.g.royalty_receiver # GlobalBefore.royalty_receiver) =>
             arc.last.op = "set_policy" /\ arc.last.ok /\ was_admin
        /\ arc.last.ok => was_admin
        /\ (arc.last.op \in {"update", "delete"} /\ ~was_admin) =>
             /\ ~arc.last.ok
             /\ arc.exists = arc.last.pre.exists
             /\ arc.updated = arc.last.pre.updated
        /\ (arc.last.op = "set_administrator" /\ arc.last.ok) =>
             /\ arc.g.administrator = Present(a.new_admin)
             /\ \A sender \in AdminAddresses :
                  (arc.g.administrator.has /\ sender = arc.g.administrator.v)
                    <=> sender = a.new_admin

(* The administrator who handed over to another address is rejected.       *)
C26_Witness ==
  /\ arc.last.op = "delete"
  /\ ~arc.last.ok
  /\ arc.last.args.sender = creator_address
  /\ arc.g.administrator = Present(alice)

====
